---- MODULE Spec2Model ----
(***************************************************************************)
(* Model of the Excel sheet validation tool (src/app.py): the loader, the  *)
(* per-loan consistency checks and the consolidation of the final table.   *)
(*                                                                         *)
(* Text is a sequence of character codes (65 = "A", 97 = "a", 32 = " "),   *)
(* so that upper-casing, whitespace splitting and the token-set ratio are  *)
(* computed the way the code computes them.  A table is a sequence of      *)
(* rows (records); a missing cell is NaN.                                  *)
(***************************************************************************)
EXTENDS Integers, Sequences, FiniteSets, TLC

----------------------------------------------------------------------------
(* Cells.                                                                  *)

\* a missing cell (pandas NaN / None): no text contains the code -1
NaN == <<-1>>

\* pd.isna
isna(v) == v = NaN

\* str(v) of a cell: text is itself, a missing cell prints as "nan"
str(v) == IF isna(v) THEN <<110, 97, 110>> ELSE v

----------------------------------------------------------------------------
(* Text primitives (Python str methods used by the code).                  *)

\* characters str.split() and str.strip() treat as whitespace
IsSpace(c) == c \in (9..13) \cup (28..32)

\* str.upper on one character
UpperChar(c) == IF c \in 97..122 THEN c - 32 ELSE c

\* str.lower on one character
LowerChar(c) == IF c \in 65..90 THEN c + 32 ELSE c

\* str.upper
upper(s) == [i \in 1..Len(s) |-> UpperChar(s[i])]

\* str.lower
lower(s) == [i \in 1..Len(s) |-> LowerChar(s[i])]

\* str.lstrip
RECURSIVE lstrip(_)
lstrip(s) == IF s # <<>> /\ IsSpace(Head(s)) THEN lstrip(Tail(s)) ELSE s

\* str.rstrip
RECURSIVE rstrip(_)
rstrip(s) ==
    IF s # <<>> /\ IsSpace(s[Len(s)]) THEN rstrip(SubSeq(s, 1, Len(s) - 1)) ELSE s

\* str.strip
strip(s) == rstrip(lstrip(s))

\* str.split(): the maximal runs of non-whitespace characters, in order
RECURSIVE SplitFrom(_, _, _)
SplitFrom(s, cur, acc) ==
    IF s = <<>> THEN (IF cur = <<>> THEN acc ELSE Append(acc, cur))
    ELSE IF IsSpace(Head(s))
         THEN SplitFrom(Tail(s), <<>>, IF cur = <<>> THEN acc ELSE Append(acc, cur))
         ELSE SplitFrom(Tail(s), Append(cur, Head(s)), acc)

split(s) == SplitFrom(s, <<>>, <<>>)

\* ' '.join(tokens)
RECURSIVE join(_)
join(toks) ==
    IF toks = <<>> THEN <<>>
    ELSE IF Len(toks) = 1 THEN toks[1]
    ELSE toks[1] \o <<32>> \o join(Tail(toks))

\* s < t in Python's string order (lexicographic by character code)
RECURSIVE StrLess(_, _)
StrLess(s, t) ==
    IF t = <<>> THEN FALSE
    ELSE IF s = <<>> THEN TRUE
    ELSE IF Head(s) # Head(t) THEN Head(s) < Head(t)
    ELSE StrLess(Tail(s), Tail(t))

\* sorted(a set of strings)
RECURSIVE sorted(_)
sorted(S) ==
    IF S = {} THEN <<>>
    ELSE LET m == CHOOSE x \in S : \A y \in S \ {x} : StrLess(x, y)
         IN  <<m>> \o sorted(S \ {m})

\* the set of the elements of a sequence
Range(q) == {q[i] : i \in 1..Len(q)}

----------------------------------------------------------------------------
(* Utility functions of the tool.                                          *)

\* a normalize that keeps the letter case
normalize_NoUpper(name) == IF isna(name) THEN <<>> ELSE join(split(name))

\* normalize: upper-case, collapse whitespace runs, trim
normalize(name) == IF isna(name) THEN <<>> ELSE join(split(upper(name)))

(* fuzz.token_set_ratio, as fuzzywuzzy computes it.                        *)

\* utils.full_process: non-word characters become spaces, lower-case, strip
IsWordChar(c) == c \in (48..57) \cup (65..90) \cup (97..122) \cup {95}

full_process(s) ==
    strip(lower([i \in 1..Len(s) |-> IF IsWordChar(s[i]) THEN s[i] ELSE 32]))

\* one row of the longest-common-subsequence table, from the row above it
\* (each test on a length makes the row a value before the next step uses it)
RECURSIVE LcsRow(_, _, _, _, _)
LcsRow(prev, a, t, j, row) ==
    IF j > Len(t) THEN row
    ELSE LET left == IF j = 1 THEN 0 ELSE row[j - 1]
             diag == IF j = 1 THEN 0 ELSE prev[j - 1]
             v    == IF a = t[j] THEN diag + 1
                     ELSE IF prev[j] >= left THEN prev[j] ELSE left
             next == Append(row, v)
         IN  IF Len(next) = j THEN LcsRow(prev, a, t, j + 1, next) ELSE next

RECURSIVE LcsRows(_, _, _, _)
LcsRows(s, t, i, prev) ==
    IF i > Len(s) THEN prev
    ELSE LET row == LcsRow(prev, s[i], t, 1, <<>>)
         IN  IF Len(row) = Len(t) THEN LcsRows(s, t, i + 1, row) ELSE row

\* number of matched characters of the two strings
Matches(s, t) ==
    IF s = <<>> \/ t = <<>> THEN 0
    ELSE LcsRows(s, t, 1, [j \in 1..Len(t) |-> 0])[Len(t)]

\* int(round(x)) for x = n / d, halves rounded to the even integer
RoundDiv(n, d) ==
    LET q == n \div d
        r == n % d
    IN  IF 2 * r < d THEN q
        ELSE IF 2 * r > d THEN q + 1
        ELSE IF q % 2 = 0 THEN q ELSE q + 1

\* fuzz.ratio: 0 for an empty string, else round(100 * 2M / T)
ratio(s, t) ==
    IF s = <<>> \/ t = <<>> THEN 0
    ELSE RoundDiv(200 * Matches(s, t), Len(s) + Len(t))

Max3(a, b, c) ==
    LET m == IF a >= b THEN a ELSE b IN IF m >= c THEN m ELSE c

\* fuzz.token_set_ratio
token_set_ratio(s1, s2) ==
    LET p1 == full_process(s1)
        p2 == full_process(s2)
    IN  IF p1 = <<>> \/ p2 = <<>> THEN 0
        ELSE LET tokens1 == Range(split(p1))
                 tokens2 == Range(split(p2))
                 sorted_sect == join(sorted(tokens1 \cap tokens2))
                 sorted_1to2 == join(sorted(tokens1 \ tokens2))
                 sorted_2to1 == join(sorted(tokens2 \ tokens1))
                 combined_1to2 == strip(sorted_sect \o <<32>> \o sorted_1to2)
                 combined_2to1 == strip(sorted_sect \o <<32>> \o sorted_2to1)
             IN  Max3(ratio(sorted_sect, combined_1to2),
                      ratio(sorted_sect, combined_2to1),
                      ratio(combined_1to2, combined_2to1))

----------------------------------------------------------------------------
(* Data frames (the pandas operations the code uses).  A frame is its set  *)
(* of column names and its rows in order; a row maps each column to a      *)
(* cell.                                                                   *)

DataFrame(cols, rows) == [columns |-> cols, rows |-> rows]

\* DataFrame(columns=cols): no rows
EmptyFrame(cols) == DataFrame(cols, <<>>)

\* df.empty
empty(df) == df.rows = <<>>

\* df[cols]: the selected columns of every row
select(df, cols) ==
    DataFrame(cols, [i \in 1..Len(df.rows) |-> [c \in cols |-> df.rows[i][c]]])

\* df.drop(columns=cols, errors='ignore')
drop(df, cols) == select(df, df.columns \ cols)

\* df.rename(columns={old: new}); a frame without the old column is unchanged
rename(df, old, new) ==
    IF old \notin df.columns THEN df
    ELSE LET cols == (df.columns \ {old}) \cup {new}
         IN  DataFrame(cols,
                 [i \in 1..Len(df.rows) |->
                     [c \in cols |-> IF c = new THEN df.rows[i][old]
                                     ELSE df.rows[i][c]]])

\* df[col] = vals: add or replace one column, vals[i] the cell of row i
assign(df, col, vals) ==
    LET cols == df.columns \cup {col}
    IN  DataFrame(cols,
            [i \in 1..Len(df.rows) |->
                [c \in cols |-> IF c = col THEN vals[i] ELSE df.rows[i][c]]])

\* df[mask]: the rows whose index is in keep, in order
RECURSIVE TakeRows(_, _, _)
TakeRows(rows, keep, i) ==
    IF i > Len(rows) THEN <<>>
    ELSE (IF i \in keep THEN <<rows[i]>> ELSE <<>>) \o TakeRows(rows, keep, i + 1)

filter(df, keep) == DataFrame(df.columns, TakeRows(df.rows, keep, 1))

\* df.drop_duplicates(): the first occurrence of every row
drop_duplicates(df) ==
    filter(df, {i \in 1..Len(df.rows) :
                    \A j \in 1..(i - 1) : df.rows[j] # df.rows[i]})

\* set(df[col])
values(df, col) == {df.rows[i][col] : i \in 1..Len(df.rows)}

\* df.groupby(key)[col].apply(set): group key -> set of the column's cells
\* (groupby leaves out the rows whose key is missing)
groupby_set(df, key, col) ==
    [k \in values(df, key) \ {NaN} |->
        {df.rows[i][col] : i \in {j \in 1..Len(df.rows) : df.rows[j][key] = k}}]

\* the last row of the key instead of the first
first_row_Last(df, key, k) ==
    df.rows[CHOOSE i \in 1..Len(df.rows) :
                /\ df.rows[i][key] = k
                /\ \A j \in (i + 1)..Len(df.rows) : df.rows[j][key] # k]

\* df[df[key] == k].iloc[0]
first_row(df, key, k) ==
    df.rows[CHOOSE i \in 1..Len(df.rows) :
                /\ df.rows[i][key] = k
                /\ \A j \in 1..(i - 1) : df.rows[j][key] # k]

\* row.get(col, ''): the cell, or the empty string for an absent column
get(row, col) == IF col \in DOMAIN row THEN row[col] ELSE <<>>

\* sequence concatenation of a sequence of sequences
RECURSIVE Flatten(_)
Flatten(qq) == IF qq = <<>> THEN <<>> ELSE Head(qq) \o Flatten(Tail(qq))

\* the column names of a merge: the keys once; a column of both sides that is
\* not a key gets the suffixes _x and _y
LeftName(L, R, on, c) == IF c \in R.columns \ on THEN c \o "_x" ELSE c
RightName(L, R, on, c) == IF c \in L.columns \ on THEN c \o "_y" ELSE c

MergeColumns(L, R, on) ==
    on \cup {LeftName(L, R, on, c) : c \in L.columns \ on}
       \cup {RightName(L, R, on, c) : c \in R.columns \ on}

\* one merged row; lr or rr is <<>> when that side has no matching row
MergeRow(L, R, on, lr, rr) ==
    [c \in MergeColumns(L, R, on) |->
        IF c \in on THEN (IF lr # <<>> THEN lr[c] ELSE rr[c])
        ELSE IF \E d \in L.columns \ on : LeftName(L, R, on, d) = c
             THEN (IF lr = <<>> THEN NaN
                   ELSE lr[CHOOSE d \in L.columns \ on : LeftName(L, R, on, d) = c])
             ELSE (IF rr = <<>> THEN NaN
                   ELSE rr[CHOOSE d \in R.columns \ on : RightName(L, R, on, d) = c])]

\* the rows of df whose key cells equal those of row r
Matching(df, on, r) ==
    TakeRows(df.rows, {i \in 1..Len(df.rows) : \A c \in on : df.rows[i][c] = r[c]}, 1)

\* pd.merge(L, R, on=on, how='left'): every left row in order, once per
\* matching right row, or once with the right columns missing
merge_left(L, R, on) ==
    DataFrame(MergeColumns(L, R, on),
        Flatten([i \in 1..Len(L.rows) |->
            LET m == Matching(R, on, L.rows[i])
            IN  IF m = <<>> THEN <<MergeRow(L, R, on, L.rows[i], <<>>)>>
                ELSE [j \in 1..Len(m) |-> MergeRow(L, R, on, L.rows[i], m[j])]]))

\* a merge that keeps the unmatched rows of the right side too
merge_left_AsOuter(L, R, on) ==
    DataFrame(MergeColumns(L, R, on),
        merge_left(L, R, on).rows \o
        Flatten([j \in 1..Len(R.rows) |->
            IF Matching(L, on, R.rows[j]) = <<>>
            THEN <<MergeRow(L, R, on, <<>>, R.rows[j])>> ELSE <<>>]))

\* pd.merge(L, R, on=key, how='outer'): the keys of either side in sorted
\* order; per key the left rows times the right rows, a side without the key
\* contributing missing cells
merge_outer(L, R, key) ==
    LET keys == sorted(values(L, key) \cup values(R, key))
        on   == {key}
        rowsOf(k) ==
            LET probe == [c \in on |-> k]
                l == Matching(L, on, probe)
                r == Matching(R, on, probe)
            IN  IF r = <<>> THEN [i \in 1..Len(l) |-> MergeRow(L, R, on, l[i], <<>>)]
                ELSE IF l = <<>>
                     THEN [j \in 1..Len(r) |-> MergeRow(L, R, on, <<>>, r[j])]
                     ELSE Flatten([i \in 1..Len(l) |->
                              [j \in 1..Len(r) |-> MergeRow(L, R, on, l[i], r[j])]])
    IN  DataFrame(MergeColumns(L, R, on),
            Flatten([n \in 1..Len(keys) |-> rowsOf(keys[n])]))

\* pd.concat([a, b], ignore_index=True) of frames with the same columns
concat(a, b) == DataFrame(a.columns, a.rows \o b.rows)

----------------------------------------------------------------------------
(* Dates.  A parsed date (a pandas Timestamp) is <<year, month, day>>.     *)

\* pd.NaT, the missing date: one object, equal to itself inside a set
NaT == <<-2>>

IsDigit(c) == c \in 48..57

\* str.zfill(width): zeros on the left, after a leading sign
zfill(s, width) ==
    IF Len(s) >= width THEN s
    ELSE LET zeros == [i \in 1..(width - Len(s)) |-> 48]
         IN  IF s # <<>> /\ Head(s) \in {43, 45}
             THEN <<Head(s)>> \o zeros \o Tail(s)
             ELSE zeros \o s

\* convert_date: NaN stays NaN; else dd-mm-yyyy... cut from the padded text
convert_date(val) ==
    IF isna(val) THEN val
    ELSE LET v == zfill(str(val), 8)
         IN  SubSeq(v, 1, 2) \o <<45>> \o SubSeq(v, 3, 4) \o <<45>> \o SubSeq(v, 5, Len(v))

\* the number a sequence of digits denotes
RECURSIVE ToInt(_)
ToInt(ds) ==
    IF ds = <<>> THEN 0 ELSE 10 * ToInt(SubSeq(ds, 1, Len(ds) - 1)) + (ds[Len(ds)] - 48)

IsLeap(y) == (y % 4 = 0 /\ y % 100 # 0) \/ y % 400 = 0

DaysInMonth(y, m) ==
    IF m = 2 THEN (IF IsLeap(y) THEN 29 ELSE 28)
    ELSE IF m \in {4, 6, 9, 11} THEN 30 ELSE 31

\* a <= b for dates
DateLeq(a, b) ==
    \/ a[1] < b[1]
    \/ a[1] = b[1] /\ a[2] < b[2]
    \/ a[1] = b[1] /\ a[2] = b[2] /\ a[3] <= b[3]

\* a calendar date that a Timestamp can hold
ValidDate(y, m, d) ==
    /\ m \in 1..12
    /\ d >= 1 /\ d <= DaysInMonth(y, m)
    /\ DateLeq(<<1677, 9, 22>>, <<y, m, d>>)
    /\ DateLeq(<<y, m, d>>, <<2262, 4, 11>>)

\* pd.to_datetime(s, format='%d-%m-%Y', errors='coerce') of one cell:
\* two digits, '-', two digits, '-', four digits and nothing else, naming a
\* valid date; anything else is NaT
to_datetime(s) ==
    IF isna(s) THEN NaT
    ELSE IF /\ Len(s) = 10
            /\ s[3] = 45 /\ s[6] = 45
            /\ \A i \in {1, 2, 4, 5, 7, 8, 9, 10} : IsDigit(s[i])
         THEN LET d == ToInt(SubSeq(s, 1, 2))
                  m == ToInt(SubSeq(s, 4, 5))
                  y == ToInt(SubSeq(s, 7, 10))
              IN  IF ValidDate(y, m, d) THEN <<y, m, d>> ELSE NaT
         ELSE NaT

----------------------------------------------------------------------------
(* The loader.                                                             *)

\* the value of data_dict when loading failed
None == <<>>

ApiSheets == {"Aadhar", "pancard", "Asset"}
ManualSheets == {"ApplicationForm", "Applicant", "Asset"}

\* a number cell holding an integer: digits, no leading zero (digits with a
\* leading zero can only be a text cell)
IsIntegerCell(v) ==
    /\ v # <<>>
    /\ \A i \in 1..Len(v) : IsDigit(v[i])
    /\ (Len(v) = 1 \/ v[1] # 48)

\* the column is read as float64: integer cells with at least one empty cell
IsFloatColumn(sheet, c) ==
    /\ \E i \in 1..Len(sheet.rows) : isna(sheet.rows[i][c])
    /\ \E i \in 1..Len(sheet.rows) : ~isna(sheet.rows[i][c])
    /\ \A i \in 1..Len(sheet.rows) :
            isna(sheet.rows[i][c]) \/ IsIntegerCell(sheet.rows[i][c])

\* an integer held as a float, by the text str() gives for it: '15081990.0'
float64(v) == IF isna(v) THEN v ELSE v \o <<46, 48>>

\* ExcelFile.parse(sheet): the cells, each column with the dtype pandas
\* infers for it
parse(sheet) ==
    DataFrame(sheet.columns,
        [i \in 1..Len(sheet.rows) |->
            [c \in sheet.columns |->
                IF IsFloatColumn(sheet, c) THEN float64(sheet.rows[i][c])
                ELSE sheet.rows[i][c]]])

\* cell + ' ' + cell of the name parts, NaN filled with ''
fillna(v) == IF isna(v) THEN <<>> ELSE v

\* the Full Name cell of an applicant row
applicant_full_name(r) ==
    strip(fillna(r["First Name"]) \o <<32>> \o fillna(r["Middle Name"])
          \o <<32>> \o fillna(r["Last Name"]))

\* the full_name cell of an asset row
asset_full_name(r) ==
    strip(fillna(r["owner_name"]) \o <<32>> \o fillna(r["father_name"]))

\* Series.str.upper on one cell
str_upper(v) == IF isna(v) THEN v ELSE upper(v)

\* what makes the try block of load_and_process_data raise: an unreadable
\* workbook, a missing sheet, or a column the preprocessing reads
LoadRaises(api_file, manual_file) ==
    \/ ~api_file.readable
    \/ ~(ApiSheets \subseteq DOMAIN api_file.sheets)
    \/ ~manual_file.readable
    \/ ~(ManualSheets \subseteq DOMAIN manual_file.sheets)
    \/ ~({"First Name", "Middle Name", "Last Name", "DOB", "Pancard Number"}
            \subseteq manual_file.sheets["Applicant"].columns)
    \/ ~({"owner_name", "father_name"} \subseteq api_file.sheets["Asset"].columns)

\* load_and_process_data: the six prepared frames, or None
load_and_process_data(api_file, manual_file) ==
    IF LoadRaises(api_file, manual_file) THEN None
    ELSE
    LET aadhar0 == drop(parse(api_file.sheets["Aadhar"]), {"aadhaar_number"})
        pancard0 == drop(parse(api_file.sheets["pancard"]),
                         {"full_name_split", "masked_aadhaar", "pan_number",
                          "pan_number.1", "phone_number"})
        asset1 == rename(parse(api_file.sheets["Asset"]), "PartnerLoanNumber", "Loan Number")
        pancard1 == rename(pancard0, "PartnerLoanNumber", "Loan Number")
        aadhar1 == rename(aadhar0, "PartnerLoanNumber", "Loan Number")
        app0 == parse(manual_file.sheets["Applicant"])
        app1 == assign(app0, "Full Name",
                       [i \in 1..Len(app0.rows) |-> applicant_full_name(app0.rows[i])])
        asset2 == assign(asset1, "full_name",
                       [i \in 1..Len(asset1.rows) |-> asset_full_name(asset1.rows[i])])
        app2 == assign(app1, "DOB",
                       [i \in 1..Len(app1.rows) |->
                           to_datetime(convert_date(app1.rows[i]["DOB"]))])
        app3 == assign(app2, "Pancard Number",
                       [i \in 1..Len(app2.rows) |->
                           str_upper(app2.rows[i]["Pancard Number"])])
        pancard2 == drop_duplicates(pancard1)
        aadhar2 == rename(aadhar1, "AadhaarNumber", "Aadhar Number")
        pancard3 == rename(rename(pancard2, "PancardNumber", "Pancard Number"),
                           "dob", "DOB")
    IN  [aadhar_df |-> aadhar2,
         pancard_df |-> pancard3,
         asset_df |-> asset2,
         application_form_df |-> parse(manual_file.sheets["ApplicationForm"]),
         applicant_details_df |-> app3,
         asset_details_df |-> parse(manual_file.sheets["Asset"])]

----------------------------------------------------------------------------
(* The checks.  Each validate_* operator is the function's return value,   *)
(* its list of mismatches; the loop runs over a Python set of loans, so    *)
(* the order of the list is not determined and the list is modelled as the *)
(* set of its entries.  Each *_Raises operator is the condition under      *)
(* which the function raises KeyError (a column it indexes is absent).     *)

\* the similarity threshold (the default of check_name_similarity, and the
\* literal of the row-wise checks)
threshold == 85

\* check_name_similarity: the (applicant name, owner name, score) triples
\* whose score reaches the threshold
check_name_similarity(app_names, owner_names) ==
    {<<a, o, token_set_ratio(normalize(a), normalize(o))>> :
        <<a, o>> \in {p \in app_names \X owner_names :
            token_set_ratio(normalize(p[1]), normalize(p[2])) >= threshold}}

\* the column of aadhar_df the Aadhar check groups
AadharColumn(aadhar_df) ==
    IF "AadhaarNumber" \in aadhar_df.columns THEN "AadhaarNumber" ELSE "Aadhar Number"

validate_aadhar_section_Raises(aadhar_df, applicant_details_df) ==
    \/ ~({"Loan Number", "Aadhar Number"} \subseteq applicant_details_df.columns)
    \/ ~({"Loan Number", AadharColumn(aadhar_df)} \subseteq aadhar_df.columns)

validate_aadhar_section(aadhar_df, applicant_details_df) ==
    LET app_map == groupby_set(applicant_details_df, "Loan Number", "Aadhar Number")
        aadhaar_map == groupby_set(aadhar_df, "Loan Number", AadharColumn(aadhar_df))
        common_loans == DOMAIN app_map \cap DOMAIN aadhaar_map
    IN  {("Loan Number" :> loan) @@ ("Issue" :> "Aadhar Number Mismatch")
            @@ ("Applicant Details" :> app_map[loan])
            @@ ("Aadhar Sheet" :> aadhaar_map[loan])
            @@ ("Total Unique" :> Cardinality(app_map[loan] \cup aadhaar_map[loan])) :
         loan \in {l \in common_loans :
                     /\ app_map[l] # aadhaar_map[l]
                     /\ Cardinality(app_map[l] \cup aadhaar_map[l]) > 2}}

\* the column of pancard_df the PAN check groups
PancardColumn(pancard_df) ==
    IF "Pancard Number" \in pancard_df.columns THEN "Pancard Number" ELSE "PancardNumber"

validate_pancard_section_Raises(pancard_df, applicant_details_df) ==
    \/ ~({"Loan Number", "Pancard Number"} \subseteq applicant_details_df.columns)
    \/ ~({"Loan Number", PancardColumn(pancard_df)} \subseteq pancard_df.columns)

validate_pancard_section(pancard_df, applicant_details_df) ==
    LET app_map == groupby_set(applicant_details_df, "Loan Number", "Pancard Number")
        pancard_map == groupby_set(pancard_df, "Loan Number", PancardColumn(pancard_df))
        common_loans == DOMAIN app_map \cap DOMAIN pancard_map
    IN  {("Loan Number" :> loan) @@ ("Issue" :> "PAN Card Number Mismatch")
            @@ ("Applicant Details" :> app_map[loan])
            @@ ("PAN Card Sheet" :> pancard_map[loan])
            @@ ("Total Unique" :> Cardinality(app_map[loan] \cup pancard_map[loan])) :
         loan \in {l \in common_loans :
                     /\ app_map[l] # pancard_map[l]
                     /\ Cardinality(app_map[l] \cup pancard_map[l]) > 2}}

validate_name_section_Raises(asset_df, applicant_details_df) ==
    \/ ~({"Loan Number", "Full Name"} \subseteq applicant_details_df.columns)
    \/ ~({"Loan Number", "full_name"} \subseteq asset_df.columns)

\* a Name check that ignores the fuzzy matches
validate_name_section_NoFuzzy(asset_df, applicant_details_df) ==
    LET app_name_map == groupby_set(applicant_details_df, "Loan Number", "Full Name")
        owner_name_map == groupby_set(asset_df, "Loan Number", "full_name")
        common_loans == DOMAIN app_name_map \cap DOMAIN owner_name_map
    IN  {("Loan Number" :> loan) @@ ("Issue" :> "Name Mismatch")
            @@ ("Applicant Names" :> app_name_map[loan])
            @@ ("Asset Owner Names" :> owner_name_map[loan]) :
         loan \in {l \in common_loans :
                     /\ app_name_map[l] # owner_name_map[l]
                     /\ Cardinality(app_name_map[l] \cup owner_name_map[l]) > 2}}

validate_name_section(asset_df, applicant_details_df) ==
    LET app_name_map == groupby_set(applicant_details_df, "Loan Number", "Full Name")
        owner_name_map == groupby_set(asset_df, "Loan Number", "full_name")
        common_loans == DOMAIN app_name_map \cap DOMAIN owner_name_map
    IN  {("Loan Number" :> loan) @@ ("Issue" :> "Name Mismatch")
            @@ ("Applicant Names" :> app_name_map[loan])
            @@ ("Asset Owner Names" :> owner_name_map[loan]) :
         loan \in {l \in common_loans :
                     /\ app_name_map[l] # owner_name_map[l]
                     /\ Cardinality(app_name_map[l] \cup owner_name_map[l]) > 2
                     /\ check_name_similarity(app_name_map[l], owner_name_map[l]) = {}}}

\* the column of pancard_df the DOB check groups
DobColumn(pancard_df) == IF "DOB" \in pancard_df.columns THEN "DOB" ELSE "dob"

validate_dob_section_Raises(pancard_df, applicant_details_df) ==
    \/ ~({"Loan Number", "DOB"} \subseteq applicant_details_df.columns)
    \/ ~({"Loan Number", DobColumn(pancard_df)} \subseteq pancard_df.columns)

\* a DOB check that leaves the missing dates out of the sets it compares
validate_dob_section_DropNaT(pancard_df, applicant_details_df) ==
    LET app_dob_map == groupby_set(applicant_details_df, "Loan Number", "DOB")
        pancard_dob_map == groupby_set(pancard_df, "Loan Number", DobColumn(pancard_df))
        common_loans == DOMAIN app_dob_map \cap DOMAIN pancard_dob_map
    IN  {("Loan Number" :> loan) @@ ("Issue" :> "DOB Mismatch")
            @@ ("Applicant DOB" :> app_dob_map[loan])
            @@ ("PAN Card DOB" :> pancard_dob_map[loan])
            @@ ("Total Unique" :> Cardinality(app_dob_map[loan] \cup pancard_dob_map[loan])) :
         loan \in {l \in common_loans :
                     /\ app_dob_map[l] \ {NaT} # pancard_dob_map[l] \ {NaT}
                     /\ Cardinality((app_dob_map[l] \cup pancard_dob_map[l]) \ {NaT}) > 2}}

validate_dob_section(pancard_df, applicant_details_df) ==
    LET app_dob_map == groupby_set(applicant_details_df, "Loan Number", "DOB")
        pancard_dob_map == groupby_set(pancard_df, "Loan Number", DobColumn(pancard_df))
        common_loans == DOMAIN app_dob_map \cap DOMAIN pancard_dob_map
    IN  {("Loan Number" :> loan) @@ ("Issue" :> "DOB Mismatch")
            @@ ("Applicant DOB" :> app_dob_map[loan])
            @@ ("PAN Card DOB" :> pancard_dob_map[loan])
            @@ ("Total Unique" :> Cardinality(app_dob_map[loan] \cup pancard_dob_map[loan])) :
         loan \in {l \in common_loans :
                     /\ app_dob_map[l] # pancard_dob_map[l]
                     /\ Cardinality(app_dob_map[l] \cup pancard_dob_map[l]) > 2}}

validate_mobile_section_Raises(asset_df, applicant_details_df) ==
    \/ ~({"Loan Number", "Mobile Number"} \subseteq applicant_details_df.columns)
    \/ ~({"Loan Number", "mobile_number"} \subseteq asset_df.columns)

\* a Mobile check whose guard is >= 2 distinct values
validate_mobile_section_Guard2(asset_df, applicant_details_df) ==
    LET app_mobile_map == groupby_set(applicant_details_df, "Loan Number", "Mobile Number")
        asset_mobile_map == groupby_set(asset_df, "Loan Number", "mobile_number")
        common_loans == DOMAIN app_mobile_map \cap DOMAIN asset_mobile_map
    IN  {("Loan Number" :> loan) @@ ("Issue" :> "Mobile Number Mismatch")
            @@ ("Applicant Mobile" :> app_mobile_map[loan])
            @@ ("Asset Mobile" :> asset_mobile_map[loan])
            @@ ("Total Unique" :> Cardinality(app_mobile_map[loan] \cup asset_mobile_map[loan])) :
         loan \in {l \in common_loans :
                     /\ app_mobile_map[l] # asset_mobile_map[l]
                     /\ Cardinality(app_mobile_map[l] \cup asset_mobile_map[l]) >= 2}}

validate_mobile_section(asset_df, applicant_details_df) ==
    LET app_mobile_map == groupby_set(applicant_details_df, "Loan Number", "Mobile Number")
        asset_mobile_map == groupby_set(asset_df, "Loan Number", "mobile_number")
        common_loans == DOMAIN app_mobile_map \cap DOMAIN asset_mobile_map
    IN  {("Loan Number" :> loan) @@ ("Issue" :> "Mobile Number Mismatch")
            @@ ("Applicant Mobile" :> app_mobile_map[loan])
            @@ ("Asset Mobile" :> asset_mobile_map[loan])
            @@ ("Total Unique" :> Cardinality(app_mobile_map[loan] \cup asset_mobile_map[loan])) :
         loan \in {l \in common_loans :
                     /\ app_mobile_map[l] # asset_mobile_map[l]
                     /\ Cardinality(app_mobile_map[l] \cup asset_mobile_map[l]) > 2}}

\* set(df['Loan Number'])
loans_of(df) == values(df, "Loan Number")

validate_application_form_section_Raises(asset_df, application_form_df) ==
    \/ "Loan Number" \notin asset_df.columns
    \/ "Loan Number" \notin application_form_df.columns

\* the Mobile entries of the Application Form check
application_mobile_mismatches(asset_df, application_form_df) ==
    LET common_loans == loans_of(asset_df) \cap loans_of(application_form_df)
        asset_row(l) == first_row(asset_df, "Loan Number", l)
        application_row(l) == first_row(application_form_df, "Loan Number", l)
    IN  {("Loan Number" :> loan) @@ ("Issue" :> "Mobile Number Mismatch")
            @@ ("Application Form Mobile" :> str(get(application_row(loan), "Mobile No.")))
            @@ ("Asset Mobile" :> str(get(asset_row(loan), "mobile_number"))) :
         loan \in {l \in common_loans :
                     normalize(str(get(application_row(l), "Mobile No.")))
                        # normalize(str(get(asset_row(l), "mobile_number")))}}

\* the Name entries of the Application Form check
application_name_mismatches(asset_df, application_form_df) ==
    LET common_loans == loans_of(asset_df) \cap loans_of(application_form_df)
        asset_row(l) == first_row(asset_df, "Loan Number", l)
        application_row(l) == first_row(application_form_df, "Loan Number", l)
        score_name(l) ==
            token_set_ratio(normalize(str(get(application_row(l), "Customer Name"))),
                            normalize(str(get(asset_row(l), "full_name"))))
    IN  {("Loan Number" :> loan) @@ ("Issue" :> "Name Mismatch")
            @@ ("Application Form Name" :> str(get(application_row(loan), "Customer Name")))
            @@ ("Asset Owner Name" :> str(get(asset_row(loan), "full_name")))
            @@ ("Similarity Score" :> score_name(loan)) :
         loan \in {l \in common_loans : score_name(l) < threshold}}

\* validate_application_form_section: name_mismatches + mobile_mismatches
validate_application_form_section(asset_df, application_form_df) ==
    application_name_mismatches(asset_df, application_form_df)
        \cup application_mobile_mismatches(asset_df, application_form_df)

\* the loans the Asset Form check loops over
asset_form_common_loans(asset_df, asset_details_df) ==
    loans_of(asset_df) \cap loans_of(asset_details_df)

validate_asset_form_section_Raises(asset_df, asset_details_df, applicant_details_df) ==
    \/ "Loan Number" \notin asset_df.columns
    \/ "Loan Number" \notin asset_details_df.columns
    \/ /\ asset_form_common_loans(asset_df, asset_details_df) # {}
       /\ "Loan Number" \notin applicant_details_df.columns

\* the entries of one normalized field comparison of the Asset Form check
normalized_field_mismatches(asset_df, asset_details_df, issue, acol, alabel, dcol, dlabel) ==
    LET asset_row(l) == first_row(asset_df, "Loan Number", l)
        details_row(l) == first_row(asset_details_df, "Loan Number", l)
    IN  {("Loan Number" :> loan) @@ ("Issue" :> issue)
            @@ (alabel :> str(get(asset_row(loan), acol)))
            @@ (dlabel :> str(get(details_row(loan), dcol))) :
         loan \in {l \in asset_form_common_loans(asset_df, asset_details_df) :
                     normalize(str(get(asset_row(l), acol)))
                        # normalize(str(get(details_row(l), dcol)))}}

reg_mismatches(asset_df, asset_details_df) ==
    normalized_field_mismatches(asset_df, asset_details_df,
        "Registration Number Mismatch", "rc_number", "Asset RC Number",
        "Registration No", "Asset Details Reg No")

\* a Registration Date comparison that normalizes both sides
date_mismatches_Normalized(asset_df, asset_details_df) ==
    normalized_field_mismatches(asset_df, asset_details_df,
        "Registration Date Mismatch", "registration_date", "Asset Registration Date",
        "Registration Date", "Asset Details Reg Date")

\* the Registration Date entries: the raw strings are compared
date_mismatches(asset_df, asset_details_df) ==
    LET asset_row(l) == first_row(asset_df, "Loan Number", l)
        details_row(l) == first_row(asset_details_df, "Loan Number", l)
    IN  {("Loan Number" :> loan) @@ ("Issue" :> "Registration Date Mismatch")
            @@ ("Asset Registration Date" :> str(get(asset_row(loan), "registration_date")))
            @@ ("Asset Details Reg Date" :> str(get(details_row(loan), "Registration Date"))) :
         loan \in {l \in asset_form_common_loans(asset_df, asset_details_df) :
                     str(get(asset_row(l), "registration_date"))
                        # str(get(details_row(l), "Registration Date"))}}

engine_mismatches(asset_df, asset_details_df) ==
    normalized_field_mismatches(asset_df, asset_details_df,
        "Engine Number Mismatch", "vehicle_engine_number", "Asset Engine Number",
        "Engine No", "Asset Details Engine No")

chassis_mismatches(asset_df, asset_details_df) ==
    normalized_field_mismatches(asset_df, asset_details_df,
        "Chassis Number Mismatch", "vehicle_chasi_number", "Asset Chassis Number",
        "Chassis No", "Asset Details Chassis No")

\* the Address entries: only for the loans of the loop that have an
\* applicant row
address_mismatches(asset_df, asset_details_df, applicant_details_df) ==
    LET asset_row(l) == first_row(asset_df, "Loan Number", l)
        applicant_row(l) == first_row(applicant_details_df, "Loan Number", l)
        score(l) ==
            token_set_ratio(normalize(str(get(asset_row(l), "permanent_address"))),
                            normalize(str(get(applicant_row(l), "Customer Address"))))
    IN  {("Loan Number" :> loan) @@ ("Issue" :> "Address Mismatch")
            @@ ("Asset Address" :> str(get(asset_row(loan), "permanent_address")))
            @@ ("Applicant Address" :> str(get(applicant_row(loan), "Customer Address")))
            @@ ("Similarity Score" :> score(loan)) :
         loan \in {l \in asset_form_common_loans(asset_df, asset_details_df) :
                     /\ l \in loans_of(applicant_details_df)
                     /\ score(l) < threshold}}

\* validate_asset_form_section: the five lists, concatenated
validate_asset_form_section(asset_df, asset_details_df, applicant_details_df, application_form_df) ==
    reg_mismatches(asset_df, asset_details_df)
        \cup date_mismatches(asset_df, asset_details_df)
        \cup engine_mismatches(asset_df, asset_details_df)
        \cup chassis_mismatches(asset_df, asset_details_df)
        \cup address_mismatches(asset_df, asset_details_df, applicant_details_df)

----------------------------------------------------------------------------
(* The consolidation.                                                      *)

CategoryColumn == "Applicant category(borrower/co-borrower/guarantor)"

\* the text 'borrower'
BorrowerText == <<98, 111, 114, 114, 111, 119, 101, 114>>

\* the asset columns the final table takes, when the asset sheet has them
asset_columns ==
    {"Loan Number", "rc_number", "registration_date", "owner_name", "mobile_number",
     "vehicle_category", "vehicle_chasi_number", "maker_description", "maker_model",
     "color", "fuel_type", "manufacturing_date_formatted", "insurance_company",
     "insurance_upto", "permit_number", "blacklist_status", "rc_status", "rto_code"}

create_final_dataframe_Raises(data_dict) ==
    \/ ~({CategoryColumn, "Loan Number", "Aadhar Number", "Pancard Number", "DOB"}
            \subseteq data_dict.applicant_details_df.columns)
    \/ ~({"Loan Number", "Aadhar Number", "age_range", "state"}
            \subseteq data_dict.aadhar_df.columns)
    \/ ~({"Loan Number", "Pancard Number", "full_name", "DOB"}
            \subseteq data_dict.pancard_df.columns)
    \/ "Loan Number" \notin data_dict.asset_df.columns
    \/ "Loan Number" \notin data_dict.application_form_df.columns

\* a borrower filter that keeps every category containing the word borrower
borrowers_of_AnyBorrower(applicant_details_df) ==
    filter(applicant_details_df,
        {i \in 1..Len(applicant_details_df.rows) :
            LET c == applicant_details_df.rows[i][CategoryColumn]
            IN  /\ ~isna(c)
                /\ Len(c) >= Len(BorrowerText)
                /\ SubSeq(lower(c), Len(c) - Len(BorrowerText) + 1, Len(c)) = BorrowerText})

\* the applicant rows whose category, lower-cased, is 'borrower'
borrowers_of(applicant_details_df) ==
    filter(applicant_details_df,
        {i \in 1..Len(applicant_details_df.rows) :
            LET c == applicant_details_df.rows[i][CategoryColumn]
            IN  ~isna(c) /\ lower(c) = BorrowerText})

\* the borrowers' identity view: Aadhaar and PAN data per borrower row
borrower_identity_of(data_dict) ==
    LET borrowers_df == borrowers_of(data_dict.applicant_details_df)
        borrower_aadhar ==
            merge_left(select(borrowers_df, {"Loan Number", "Aadhar Number"}),
                       select(data_dict.aadhar_df,
                              {"Loan Number", "Aadhar Number", "age_range", "state"}),
                       {"Loan Number", "Aadhar Number"})
        borrower_pan ==
            merge_left(select(borrowers_df, {"Loan Number", "Pancard Number", "DOB"}),
                       select(data_dict.pancard_df,
                              {"Loan Number", "Pancard Number", "full_name", "DOB"}),
                       {"Loan Number", "Pancard Number"})
    IN  merge_outer(borrower_aadhar, borrower_pan, "Loan Number")

\* a join that keeps the identity rows of loans without an asset row
joined_of_Outer(data_dict) ==
    LET asset_df == data_dict.asset_df
        asset_df_trimmed == select(asset_df, asset_columns \cap asset_df.columns)
    IN  merge_left_AsOuter(asset_df_trimmed, borrower_identity_of(data_dict),
                           {"Loan Number"})

\* the asset rows joined with the identity view, before the append step
joined_of(data_dict) ==
    LET asset_df == data_dict.asset_df
        asset_df_trimmed == select(asset_df, asset_columns \cap asset_df.columns)
    IN  merge_left(asset_df_trimmed, borrower_identity_of(data_dict), {"Loan Number"})

\* the rows appended for the application-form loans the join does not have
missing_rows_of(final_df, application_form_df) ==
    LET missing_loan_numbers ==
            filter(application_form_df,
                {i \in 1..Len(application_form_df.rows) :
                    application_form_df.rows[i]["Loan Number"] \notin loans_of(final_df)})
    IN  DataFrame(final_df.columns,
            [i \in 1..Len(missing_loan_numbers.rows) |->
                [c \in final_df.columns |->
                    IF c = "Loan Number" THEN missing_loan_numbers.rows[i]["Loan Number"]
                    ELSE NaN]])

create_final_dataframe(data_dict) ==
    LET final_df == joined_of(data_dict)
        missing_rows == missing_rows_of(final_df, data_dict.application_form_df)
    IN  IF ~empty(missing_rows) THEN concat(final_df, missing_rows) ELSE final_df

----------------------------------------------------------------------------
(* The run of the script: both files uploaded, the load, the four tabs in  *)
(* order.  An uncaught exception ends the run where it is raised.          *)

VARIABLES
    api_file,               \* the uploaded API workbook
    manual_file,            \* the uploaded manual workbook
    pc,                     \* where the script is
    data_dict,              \* what load_and_process_data returned
    mismatches,             \* check name -> its list of mismatches, once it ran
    final_df,               \* the final table, once built
    download,               \* whether the download was offered
    errors                  \* the error shown by the loader or the uncaught exception

vars == <<api_file, manual_file, pc, data_dict, mismatches, final_df, download, errors>>

\* the checks, in the order the script runs them
Checks == <<"aadhar", "pancard", "name", "dob", "mobile", "application", "asset">>

\* the script's position after check n
AfterCheck(n) == IF n < Len(Checks) THEN Checks[n + 1] ELSE "final"

\* whether check c raises on the loaded frames d
CheckRaises(c, d) ==
    CASE c = "aadhar" -> validate_aadhar_section_Raises(d.aadhar_df, d.applicant_details_df)
      [] c = "pancard" -> validate_pancard_section_Raises(d.pancard_df, d.applicant_details_df)
      [] c = "name" -> validate_name_section_Raises(d.asset_df, d.applicant_details_df)
      [] c = "dob" -> validate_dob_section_Raises(d.pancard_df, d.applicant_details_df)
      [] c = "mobile" -> validate_mobile_section_Raises(d.asset_df, d.applicant_details_df)
      [] c = "application" ->
            validate_application_form_section_Raises(d.asset_df, d.application_form_df)
      [] c = "asset" ->
            validate_asset_form_section_Raises(d.asset_df, d.asset_details_df,
                                               d.applicant_details_df)

\* the list check c returns on the loaded frames d
CheckResult(c, d) ==
    CASE c = "aadhar" -> validate_aadhar_section(d.aadhar_df, d.applicant_details_df)
      [] c = "pancard" -> validate_pancard_section(d.pancard_df, d.applicant_details_df)
      [] c = "name" -> validate_name_section(d.asset_df, d.applicant_details_df)
      [] c = "dob" -> validate_dob_section(d.pancard_df, d.applicant_details_df)
      [] c = "mobile" -> validate_mobile_section(d.asset_df, d.applicant_details_df)
      [] c = "application" ->
            validate_application_form_section(d.asset_df, d.application_form_df)
      [] c = "asset" ->
            validate_asset_form_section(d.asset_df, d.asset_details_df,
                                        d.applicant_details_df, d.application_form_df)

\* a main script that goes on whatever the loader returned
Loaded_Always(d) == TRUE

\* `if data_dict:` of the main script
Loaded(d) == d # None

\* with st.spinner: data_dict = load_and_process_data(api_file, manual_file)
Load ==
    /\ pc = "start"
    /\ api_file.uploaded /\ manual_file.uploaded
    /\ data_dict' = load_and_process_data(api_file, manual_file)
    /\ errors' = IF LoadRaises(api_file, manual_file) THEN {"Error loading data"} ELSE {}
    /\ pc' = IF Loaded(data_dict') THEN Checks[1] ELSE "done"
    /\ UNCHANGED <<api_file, manual_file, mismatches, final_df, download>>

\* the else branch: a file is missing, the script shows the upload prompt
Prompt ==
    /\ pc = "start"
    /\ ~(api_file.uploaded /\ manual_file.uploaded)
    /\ pc' = "done"
    /\ UNCHANGED <<api_file, manual_file, data_dict, mismatches, final_df, download, errors>>

\* a Mobile check that empties the asset table it was given
tables_after_Emptied(c, d) ==
    IF c = "mobile" THEN [d EXCEPT !.asset_df = EmptyFrame(d.asset_df.columns)] ELSE d

\* the loaded tables when check c has returned: the validate_* functions
\* only read the frames they are given (groupby, boolean selection, .iloc,
\* .get) and assign to none of them
tables_after(c, d) == d

\* one validate_* call of the tabs 1 to 3
RunCheck(n) ==
    /\ pc = Checks[n]
    /\ IF CheckRaises(Checks[n], data_dict)
       THEN /\ pc' = "crashed"
            /\ errors' = errors \cup {"KeyError"}
            /\ UNCHANGED <<mismatches, data_dict>>
       ELSE /\ pc' = AfterCheck(n)
            /\ mismatches' = (Checks[n] :> CheckResult(Checks[n], data_dict)) @@ mismatches
            /\ data_dict' = tables_after(Checks[n], data_dict)
            /\ UNCHANGED errors
    /\ UNCHANGED <<api_file, manual_file, final_df, download>>

\* the validate_* calls made in another order: any check that has not run
\* yet is called next; the final tab follows the last one
RunCheckAnyOrder(c) ==
    /\ pc \in Range(Checks)
    /\ c \notin DOMAIN mismatches
    /\ IF CheckRaises(c, data_dict)
       THEN /\ pc' = "crashed"
            /\ errors' = errors \cup {"KeyError"}
            /\ UNCHANGED <<mismatches, data_dict>>
       ELSE /\ mismatches' = (c :> CheckResult(c, data_dict)) @@ mismatches
            /\ pc' = IF DOMAIN mismatches' = Range(Checks) THEN "final" ELSE pc
            /\ data_dict' = tables_after(c, data_dict)
            /\ UNCHANGED errors
    /\ UNCHANGED <<api_file, manual_file, final_df, download>>

\* tab 4: the summary, create_final_dataframe and the download button
FinalResults ==
    /\ pc = "final"
    /\ IF create_final_dataframe_Raises(data_dict)
       THEN /\ pc' = "crashed"
            /\ errors' = errors \cup {"KeyError"}
            /\ UNCHANGED <<final_df, download>>
       ELSE /\ pc' = "done"
            /\ final_df' = <<create_final_dataframe(data_dict)>>
            /\ download' = TRUE
            /\ UNCHANGED errors
    /\ UNCHANGED <<api_file, manual_file, data_dict, mismatches>>

----------------------------------------------------------------------------
(* The uploaded workbooks the model is checked on.  Every row is built     *)
(* from a loan and a variant number; the variants are chosen so that       *)
(* equal, case- or space-different and really different cells all occur.   *)

\* rows per sheet
MaxRows == 2

\* characters of a free text cell
MaxLen == 4

\* application-form rows in the uploads for the consolidation
MaxForms == 1

L1 == <<76, 49>>    \* 'L1'
L2 == <<76, 50>>    \* 'L2'
Loans == <<L1, L2>>

\* identity values of variant k: Aadhaar number, PAN (applicant sheet, API
\* sheet), mobile number, raw applicant DOB, PAN-sheet dob
AadharVal == <<<<49, 49>>, <<50, 50>>, <<51, 51>>>>
PanManual == <<<<97, 97, 97, 49>>, <<66, 66, 66, 50>>, <<67, 67, 67, 51>>>>    \* 'aaa1', 'BBB2', 'CCC3'
PanApi == <<<<65, 65, 65, 49>>, <<66, 66, 66, 50>>, <<67, 67, 67, 51>>>>    \* 'AAA1', 'BBB2', 'CCC3'
MobileVal == <<<<57, 48, 49>>, <<57, 48, 50>>, <<57, 48, 51>>>>    \* '901', '902', '903'
DobRaw == <<<<49, 53, 48, 56, 49, 57, 57, 48>>, <<53, 48, 56, 49, 57, 57, 48>>, <<57, 57, 57, 57, 57, 57, 57, 57>>>>
    \* '15081990', '5081990', '99999999'
DobApi == <<<<1990, 8, 15>>, <<1990, 8, 5>>, NaT>>

\* applicant name parts of variant k: John / - / Doe, Jane / - / Roe, John / Doe / -
FirstName == <<<<74, 111, 104, 110>>, <<74, 97, 110, 101>>, <<74, 111, 104, 110>>>>
MiddleName == <<NaN, NaN, <<68, 111, 101>>>>
LastName == <<<<68, 111, 101>>, <<82, 111, 101>>, NaN>>
\* applicant categories of variant k; variant 3 is a co-borrower in loan L1
\* and a guarantor in loan L2
Category(loan, k) ==
    CASE k = 1 -> <<98, 111, 114, 114, 111, 119, 101, 114>>    \* 'borrower'
      [] k = 2 -> <<66, 111, 114, 114, 111, 119, 101, 114>>    \* 'Borrower'
      [] k = 3 /\ loan = L1 -> <<99, 111, 45, 98, 111, 114, 114, 111, 119, 101, 114>>    \* 'co-borrower'
      [] OTHER -> <<71, 117, 97, 114, 97, 110, 116, 111, 114>>    \* 'Guarantor'

\* asset owner and father names of variant k: JON DOE, Amy Lee, John Doe
OwnerName == <<<<74, 79, 78>>, <<65, 109, 121>>, <<74, 111, 104, 110>>>>
FatherName == <<<<68, 79, 69>>, <<76, 101, 101>>, <<68, 111, 101>>>>
\* vehicle cells of the API Asset sheet, variant k
RcNumber == <<<<109, 104, 49, 32, 97>>, <<77, 72, 50>>, <<77, 72, 50>>>>    \* 'mh1 a', 'MH2', 'MH2'
RegistrationDate == <<<<53, 32, 74, 97, 110>>, <<53, 32, 74, 97, 110>>, <<54, 32, 74, 97, 110>>>>
    \* '5 Jan', '5 Jan', '6 Jan'
EngineNumber == <<<<101, 49>>, <<69, 50>>, <<69, 50>>>>    \* 'e1', 'E2', 'E2'
ChasiNumber == <<<<99, 49>>, <<99, 49>>, <<67, 50>>>>    \* 'c1', 'c1', 'C2'
PermanentAddress == <<80, 117, 110, 101, 32, 49>>    \* 'Pune 1'
\* the applicant sheet's address of variant k: 'pune  1', 'Pune 2', 'Goa 9'
CustomerAddress == <<<<112, 117, 110, 101, 32, 32, 49>>, <<80, 117, 110, 101, 32, 50>>, <<71, 111, 97, 32, 57>>>>

\* cells of the manual workbook's ApplicationForm and Asset sheets, variant m
CustomerName == <<<<106, 111, 104, 110, 32, 100, 111, 101>>, <<65, 109, 121, 32, 76, 101, 101>>, <<74, 97, 110, 101, 32, 82, 111, 101>>>>
    \* 'john doe', 'Amy Lee', 'Jane Roe'
MobileNo == <<<<57, 48, 49, 32>>, <<57, 48, 50>>, <<57, 48, 51>>>>    \* '901 ', '902', '903'
RegistrationNo == <<<<77, 72, 49, 32, 32, 65>>, <<77, 72, 49, 32, 65>>, <<77, 72, 51>>>>
    \* 'MH1  A', 'MH1 A', 'MH3'
RegistrationDateManual == <<<<53, 32, 74, 97, 110>>, <<53, 32, 74, 65, 78>>, <<55, 32, 74, 97, 110>>>>
    \* '5 Jan', '5 JAN', '7 Jan'
EngineNo == <<<<69, 49>>, <<69, 49>>, <<69, 51>>>>    \* 'E1', 'E1', 'E3'
ChassisNo == <<<<67, 49>>, <<67, 57>>, <<67, 51>>>>    \* 'C1', 'C9', 'C3'

\* a template t in 1..(Len(Loans) * nv) names a loan and a variant in 1..nv
LoanOf(t, nv) == Loans[((t - 1) \div nv) + 1]
VariantOf(t, nv) == ((t - 1) % nv) + 1

\* the sequences of at most n templates out of the set S
AllSeqs(S, n) == UNION {[1..m -> S] : m \in 0..n}

\* the same, up to the order of the rows
SortedSeqs(S, n) ==
    {q \in AllSeqs(S, n) : \A i \in 1..(Len(q) - 1) : q[i] <= q[i + 1]}

ApplicantColumns ==
    {"Loan Number", "First Name", "Middle Name", "Last Name", "DOB", "Aadhar Number",
     "Pancard Number", "Mobile Number", "Customer Address", CategoryColumn}

ApplicantRow(loan, k) ==
    ("Loan Number" :> loan) @@ ("First Name" :> FirstName[k])
        @@ ("Middle Name" :> MiddleName[k]) @@ ("Last Name" :> LastName[k])
        @@ ("DOB" :> DobRaw[k]) @@ ("Aadhar Number" :> AadharVal[k])
        @@ ("Pancard Number" :> PanManual[k]) @@ ("Mobile Number" :> MobileVal[k])
        @@ ("Customer Address" :> CustomerAddress[k])
        @@ (CategoryColumn :> Category(loan, k))

AadharColumns == {"PartnerLoanNumber", "AadhaarNumber", "age_range", "state"}

AadharRow(loan, k) ==
    ("PartnerLoanNumber" :> loan) @@ ("AadhaarNumber" :> AadharVal[k])
        @@ ("age_range" :> <<50, 48 + k>>) @@ ("state" :> <<77, 48 + k>>)

PancardColumns == {"PartnerLoanNumber", "PancardNumber", "full_name", "dob"}

PancardRow(loan, k) ==
    ("PartnerLoanNumber" :> loan) @@ ("PancardNumber" :> PanApi[k])
        @@ ("full_name" :> (OwnerName[k] \o <<32>> \o FatherName[k]))
        @@ ("dob" :> DobApi[k])

ApiAssetColumns ==
    {"PartnerLoanNumber", "owner_name", "father_name", "mobile_number", "rc_number",
     "registration_date", "vehicle_engine_number", "vehicle_chasi_number",
     "permanent_address"}

ApiAssetRow(loan, k) ==
    ("PartnerLoanNumber" :> loan) @@ ("owner_name" :> OwnerName[k])
        @@ ("father_name" :> FatherName[k]) @@ ("mobile_number" :> MobileVal[k])
        @@ ("rc_number" :> RcNumber[k]) @@ ("registration_date" :> RegistrationDate[k])
        @@ ("vehicle_engine_number" :> EngineNumber[k])
        @@ ("vehicle_chasi_number" :> ChasiNumber[k])
        @@ ("permanent_address" :> PermanentAddress)

ApplicationFormColumns == {"Loan Number", "Customer Name", "Mobile No."}

ApplicationFormRow(loan, m) ==
    ("Loan Number" :> loan) @@ ("Customer Name" :> CustomerName[m])
        @@ ("Mobile No." :> MobileNo[m])

ManualAssetColumns ==
    {"Loan Number", "Registration No", "Registration Date", "Engine No", "Chassis No"}

ManualAssetRow(loan, m) ==
    ("Loan Number" :> loan) @@ ("Registration No" :> RegistrationNo[m])
        @@ ("Registration Date" :> RegistrationDateManual[m])
        @@ ("Engine No" :> EngineNo[m]) @@ ("Chassis No" :> ChassisNo[m])

\* a sheet of the given columns and rows; the columns in absent are not in
\* the sheet
Sheet(cols, rows, absent) == drop(DataFrame(cols, rows), absent)

\* the API workbook: the three sheets list the same loans and variants
ApiWorkbook(q, nv, absent) ==
    ("Aadhar" :> Sheet(AadharColumns,
              [i \in 1..Len(q) |-> AadharRow(LoanOf(q[i], nv), VariantOf(q[i], nv))],
              absent))
        @@ ("pancard" :> Sheet(PancardColumns,
              [i \in 1..Len(q) |-> PancardRow(LoanOf(q[i], nv), VariantOf(q[i], nv))],
              absent))
        @@ ("Asset" :> Sheet(ApiAssetColumns,
              [i \in 1..Len(q) |-> ApiAssetRow(LoanOf(q[i], nv), VariantOf(q[i], nv))],
              absent))

\* the manual workbook: applicants qa, application forms qf, asset details qd
ManualWorkbook(qa, qf, qd, nv, absent) ==
    ("Applicant" :> Sheet(ApplicantColumns,
              [i \in 1..Len(qa) |-> ApplicantRow(LoanOf(qa[i], nv), VariantOf(qa[i], nv))],
              absent))
        @@ ("ApplicationForm" :> Sheet(ApplicationFormColumns,
              [i \in 1..Len(qf) |-> ApplicationFormRow(LoanOf(qf[i], nv), VariantOf(qf[i], nv))],
              absent))
        @@ ("Asset" :> Sheet(ManualAssetColumns,
              [i \in 1..Len(qd) |-> ManualAssetRow(LoanOf(qd[i], nv), VariantOf(qd[i], nv))],
              absent))

File(sheets) == [uploaded |-> TRUE, readable |-> TRUE, sheets |-> sheets]

\* the state when the script starts, for given uploads
Start(api, manual) ==
    /\ api_file = api
    /\ manual_file = manual
    /\ pc = "start"
    /\ data_dict = None
    /\ mismatches = <<>>
    /\ final_df = <<>>
    /\ download = FALSE
    /\ errors = {}

\* well-formed workbooks: applicants against the API rows (the set checks)
InitChecks ==
    \E qa \in SortedSeqs(1..6, MaxRows), q \in SortedSeqs(1..6, MaxRows) :
        Start(File(ApiWorkbook(q, 3, {})),
              File(ManualWorkbook(qa, <<1>>, <<1>>, 3, {})))

\* well-formed workbooks: API asset rows against application forms and asset
\* details, in every order (the row-wise checks)
InitRowwise ==
    \E q \in AllSeqs(1..4, MaxRows), qm \in AllSeqs(1..4, MaxRows) :
        Start(File(ApiWorkbook(q, 2, {})),
              File(ManualWorkbook(<<1>>, qm, qm, 2, {})))

\* well-formed workbooks: applicants of every category, API rows that match
\* a borrower (variant 1) or a co-borrower (variant 3), and application forms
\* (the consolidation)
InitFinal ==
    \E qa \in SortedSeqs(1..6, MaxRows), q \in SortedSeqs({1, 3, 4}, MaxRows),
       qf \in SortedSeqs({1, 4}, MaxForms) :
        Start(File(ApiWorkbook(q, 3, {})),
              File(ManualWorkbook(qa, qf, <<1>>, 3, {})))

\* well-formed workbooks: applicants with every address, in every order,
\* against API asset rows and asset details that list the same or different
\* loans (the address check)
InitAddress ==
    \E qa \in AllSeqs(1..6, MaxRows), q \in SortedSeqs({1, 4}, MaxForms),
       qd \in SortedSeqs({1, 4}, MaxForms) :
        Start(File(ApiWorkbook(q, 3, {})),
              File(ManualWorkbook(qa, <<1>>, qd, 3, {})))

\* raw DOB cells of the applicant sheet: 15081990, 5081990, 99999999, an
\* empty cell, the text '15AUG90', 29022000 (a leap day), 31042001 (no such
\* day)
DobCases ==
    <<<<49, 53, 48, 56, 49, 57, 57, 48>>, <<53, 48, 56, 49, 57, 57, 48>>,
      <<57, 57, 57, 57, 57, 57, 57, 57>>, NaN,
      <<49, 53, 65, 85, 71, 57, 48>>, <<50, 57, 48, 50, 50, 48, 48, 48>>,
      <<51, 49, 48, 52, 50, 48, 48, 49>>>>

\* a borrower of loan L1 with the given raw DOB
DobRow(raw) == [ApplicantRow(L1, 1) EXCEPT !["DOB"] = raw]

\* well-formed workbooks: applicants of one loan with every raw DOB, in
\* every order, against PAN rows of that loan (the DOB parsing and the DOB
\* check)
InitDob ==
    \E qb \in AllSeqs(1..Len(DobCases), MaxRows), q \in SortedSeqs(1..3, MaxForms) :
        Start(File(ApiWorkbook(q, 3, {})),
              File([ManualWorkbook(<<>>, <<1>>, <<1>>, 3, {}) EXCEPT
                     !["Applicant"] =
                        Sheet(ApplicantColumns,
                              [i \in 1..Len(qb) |-> DobRow(DobCases[qb[i]])], {})]))

\* free text cells: the texts of 1..n characters out of 'a', 'A', ' ' and tab
TextAlphabet == {97, 65, 32, 9}
Texts(n) == UNION {[1..m -> TextAlphabet] : m \in 1..n}

\* the asset sheet's mobile_number cells the texts are compared with:
\* 'a A', 'A' tab 'a', 'aa', ' a'
NormalizeCases == <<<<97, 32, 65>>, <<65, 9, 97>>, <<97, 97>>, <<32, 97>>>>

\* well-formed workbooks of one loan whose API asset row and application
\* form carry free text in the mobile number (the normalization)
InitNormalize ==
    \E k \in 1..Len(NormalizeCases), y \in Texts(MaxLen) :
        Start(File([ApiWorkbook(<<1>>, 3, {}) EXCEPT
                     !["Asset"] =
                        Sheet(ApiAssetColumns,
                              <<[ApiAssetRow(L1, 1) EXCEPT
                                   !["mobile_number"] = NormalizeCases[k]]>>, {})]),
              File([ManualWorkbook(<<1>>, <<>>, <<1>>, 3, {}) EXCEPT
                     !["ApplicationForm"] =
                        Sheet(ApplicationFormColumns,
                              <<[ApplicationFormRow(L1, 1) EXCEPT
                                   !["Mobile No."] = y]>>, {})]))

\* well-formed workbooks: applicants against one API row of loan L1, with
\* an application form and asset details that differ from it (the order of
\* the checks)
InitOrder ==
    \E qa \in SortedSeqs(1..6, MaxRows), t \in {1, 2} :
        Start(File(ApiWorkbook(<<t>>, 3, {})),
              File(ManualWorkbook(qa, <<1>>, <<3>>, 3, {})))

\* what can be wrong with the uploads: a file not uploaded, a workbook that
\* cannot be read, a sheet that is missing, columns that are absent
UploadFaults ==
    {[not_uploaded |-> u, unreadable |-> r, no_sheet |-> n, absent |-> a] :
        <<u, r, n, a>> \in
            {<<{}, {}, {}, {}>>,
             <<{"api"}, {}, {}, {}>>, <<{"manual"}, {}, {}, {}>>,
             <<{}, {"api"}, {}, {}>>, <<{}, {"manual"}, {}, {}>>,
             <<{}, {}, {"pancard"}, {}>>, <<{}, {}, {"Applicant"}, {}>>,
             <<{}, {}, {}, {"First Name"}>>, <<{}, {}, {}, {"father_name"}>>,
             <<{}, {}, {}, {"Aadhar Number"}>>, <<{}, {}, {}, {"Mobile Number"}>>,
             <<{}, {}, {}, {"mobile_number"}>>, <<{}, {}, {}, {"Mobile No."}>>,
             <<{}, {}, {}, {"Registration Date"}>>, <<{}, {}, {}, {"state"}>>}}

\* a workbook with the fault f applied
Faulty(name, sheets, f) ==
    [uploaded |-> name \notin f.not_uploaded,
     readable |-> name \notin f.unreadable,
     sheets |-> [n \in DOMAIN sheets \ f.no_sheet |-> sheets[n]]]

\* any uploads: every fault, over a few applicant sheets
Init ==
    \E qa \in SortedSeqs(1..6, MaxRows), f \in UploadFaults :
        Start(Faulty("api", ApiWorkbook(<<1, 5>>, 3, f.absent), f),
              Faulty("manual", ManualWorkbook(qa, <<1, 4>>, <<1, 5>>, 3, f.absent), f))

\* a run once both files are uploaded
Run ==
    \/ Load
    \/ \E n \in 1..Len(Checks) : RunCheck(n)
    \/ FinalResults

Next ==
    \/ Run
    \/ Prompt


Spec == Init /\ [][Next]_vars

SpecChecks == InitChecks /\ [][Run]_vars

SpecRowwise == InitRowwise /\ [][Run]_vars

SpecFinal == InitFinal /\ [][Run]_vars

SpecAddress == InitAddress /\ [][Run]_vars

SpecDob == InitDob /\ [][Run]_vars

SpecNormalize == InitNormalize /\ [][Run]_vars

\* a run that calls the checks in any order
RunAnyOrder ==
    \/ Load
    \/ \E c \in Range(Checks) : RunCheckAnyOrder(c)
    \/ FinalResults

SpecAnyOrder == InitOrder /\ [][RunAnyOrder]_vars

----------------------------------------------------------------------------
(* The properties.                                                         *)

\* the checks that have returned
Ran(c) == c \in DOMAIN mismatches

\* the loans check c reports under the given issue
Reported(c, issue) ==
    {m["Loan Number"] : m \in {x \in mismatches[c] : x["Issue"] = issue}}

\* the cells of column col in the rows of df for the loan
CellsOf(df, col, loan) ==
    {df.rows[i][col] : i \in {j \in 1..Len(df.rows) : df.rows[j]["Loan Number"] = loan}}

\* whether df has a row for the loan
HasLoan(df, loan) == \E i \in 1..Len(df.rows) : df.rows[i]["Loan Number"] = loan

\* the first row of df for the loan
FirstOf(df, loan) ==
    LET idx == {i \in 1..Len(df.rows) : df.rows[i]["Loan Number"] = loan}
    IN  df.rows[CHOOSE i \in idx : \A j \in idx : i <= j]

\* the loans of the uploads
AllLoans == Range(Loans)

\* the set-based checks: check name, issue, applicant column, the other
\* frame and its column
SetChecks ==
    {<<"aadhar", "Aadhar Number Mismatch", "Aadhar Number", "aadhar_df", "Aadhar Number">>,
     <<"pancard", "PAN Card Number Mismatch", "Pancard Number", "pancard_df", "Pancard Number">>,
     <<"dob", "DOB Mismatch", "DOB", "pancard_df", "DOB">>,
     <<"mobile", "Mobile Number Mismatch", "Mobile Number", "asset_df", "mobile_number">>}

\* the set rule for one check and one loan: both sources have the loan, the
\* two value-sets differ and their union has more than 2 elements
SetRule(k, loan) ==
    LET A == data_dict.applicant_details_df
        B == data_dict[k[4]]
        a == CellsOf(A, k[3], loan)
        b == CellsOf(B, k[5], loan)
    IN  /\ HasLoan(A, loan) /\ HasLoan(B, loan)
        /\ a # b
        /\ Cardinality(a \cup b) > 2

\* C1: in each set-based check (Aadhar, PAN, DOB, applicant-vs-asset mobile) a
\* loan is in the mismatch list if and only if both sources have it, the two
\* per-loan value-sets are unequal and their union has more than 2 distinct
\* elements.
C1_SetRule ==
    \A k \in SetChecks :
        Ran(k[1]) =>
            \A loan \in AllLoans : loan \in Reported(k[1], k[2]) <=> SetRule(k, loan)

\* C1 happens: the Mobile and the Aadhar check have run and report a loan
\* whose sets are {X, Z} against {Y}.
C1_Witness ==
    /\ Ran("mobile") /\ Ran("aadhar")
    /\ \E l1 \in AllLoans :
        LET A == data_dict.applicant_details_df
        IN  /\ l1 \in Reported("mobile", "Mobile Number Mismatch")
            /\ l1 \in Reported("aadhar", "Aadhar Number Mismatch")
            /\ Cardinality(CellsOf(A, "Mobile Number", l1)) = 2
            /\ Cardinality(CellsOf(data_dict.asset_df, "mobile_number", l1)) = 1
            /\ Cardinality(CellsOf(A, "Aadhar Number", l1)) = 2
            /\ Cardinality(CellsOf(data_dict.aadhar_df, "Aadhar Number", l1)) = 1

\* some applicant name and some owner name of the loan are similar
FuzzyHit(loan) ==
    \E a \in CellsOf(data_dict.applicant_details_df, "Full Name", loan),
       o \in CellsOf(data_dict.asset_df, "full_name", loan) :
        token_set_ratio(normalize(a), normalize(o)) >= threshold

\* the set rule of the Name check for the loan
NameSetRule(loan) ==
    LET a == CellsOf(data_dict.applicant_details_df, "Full Name", loan)
        o == CellsOf(data_dict.asset_df, "full_name", loan)
    IN  /\ HasLoan(data_dict.applicant_details_df, loan)
        /\ HasLoan(data_dict.asset_df, loan)
        /\ a # o
        /\ Cardinality(a \cup o) > 2

\* C2: in the Name check a loan with a pair (applicant name, owner name) of
\* similarity >= 85 is not reported, whatever its sets; a loan without such a
\* pair whose sets are unequal with a union of more than 2 names is reported.
C2_FuzzySuppresses ==
    Ran("name") =>
        \A loan \in AllLoans :
            /\ FuzzyHit(loan) => loan \notin Reported("name", "Name Mismatch")
            /\ (~FuzzyHit(loan) /\ NameSetRule(loan))
                   => loan \in Reported("name", "Name Mismatch")

\* C2 happens: the Name check has run and leaves out a loan that the set
\* rule flags, because of a fuzzy hit between two unequal names.
C2_Witness ==
    /\ Ran("name")
    /\ \E l1 \in AllLoans :
        /\ NameSetRule(l1) /\ FuzzyHit(l1)
        /\ CellsOf(data_dict.applicant_details_df, "Full Name", l1)
              \cap CellsOf(data_dict.asset_df, "full_name", l1) = {}
        /\ l1 \notin Reported("name", "Name Mismatch")

\* the final table, once built
Built == final_df # <<>>
FinalTable == final_df[1]

\* the rows of df for the loan
RowsOf(df, loan) ==
    {i \in 1..Len(df.rows) : df.rows[i]["Loan Number"] = loan}

\* a cell that holds nothing
IsNull(v) == v \in {NaN, NaT}

\* every column of the row but the loan number is null
AllNull(df, i) == \A c \in df.columns \ {"Loan Number"} : IsNull(df.rows[i][c])

\* the applicant rows whose category is borrower, in any letter case
BorrowerRows ==
    LET A == data_dict.applicant_details_df
    IN  {A.rows[i] : i \in {j \in 1..Len(A.rows) :
                                upper(A.rows[j][CategoryColumn]) = upper(BorrowerText)}}

\* C3 (the claim): every loan of the verified Asset table or of the
\* ApplicationForm table has exactly one row in the final table.
C3_OneRowPerLoan ==
    Built =>
        \A loan \in AllLoans :
            (HasLoan(data_dict.asset_df, loan) \/ HasLoan(data_dict.application_form_df, loan))
                => Cardinality(RowsOf(FinalTable, loan)) = 1

\* C4: a loan of ApplicationForm that the asset/identity join does not have
\* gets one appended row per application-form row, the loan number set and
\* every other column null; so with a borrower row for the loan, no asset row
\* for it and one application-form row, the final table has exactly one row
\* for the loan, all other fields null.
C4_MissingLoansAppended ==
    Built =>
        \A loan \in AllLoans :
            LET F == data_dict.application_form_df
            IN  /\ (HasLoan(F, loan) /\ ~HasLoan(joined_of(data_dict), loan))
                    => /\ Cardinality(RowsOf(FinalTable, loan)) = Cardinality(RowsOf(F, loan))
                       /\ \A i \in RowsOf(FinalTable, loan) : AllNull(FinalTable, i)
                /\ (/\ \E b \in BorrowerRows : b["Loan Number"] = loan
                    /\ ~HasLoan(data_dict.asset_df, loan)
                    /\ Cardinality(RowsOf(F, loan)) = 1)
                    => /\ Cardinality(RowsOf(FinalTable, loan)) = 1
                       /\ \A i \in RowsOf(FinalTable, loan) : AllNull(FinalTable, i)

\* C4 happens: the final table is built from uploads with a borrower row for
\* a loan, no asset row for it and the loan in ApplicationForm, and holds the
\* appended row of the loan.
C4_Witness ==
    /\ Built
    /\ \E loan \in AllLoans :
        /\ \E b \in BorrowerRows : b["Loan Number"] = loan
        /\ ~HasLoan(data_dict.asset_df, loan)
        /\ HasLoan(data_dict.application_form_df, loan)
        /\ Cardinality(RowsOf(FinalTable, loan)) = 1
        /\ "Aadhar Number" \in FinalTable.columns

\* C5 (the claim): with no borrower rows or no asset rows the consolidation
\* does not raise and the final table has no rows.
C5_EmptyWhenNoBorrowersOrAssets ==
    (/\ pc \in {"done", "crashed"}
     /\ Loaded(data_dict)
     /\ (BorrowerRows = {} \/ empty(data_dict.asset_df)))
        => (Built /\ empty(FinalTable))

\* C6: every identity value of the final table comes from a borrower row:
\* the Aadhaar number, PAN and DOB of a row are those of a borrower applicant
\* of the loan, and age_range, state, full_name and the PAN-sheet DOB are
\* those of the API row matching a borrower's Aadhaar number or PAN.
C6_OnlyBorrowers ==
    Built =>
        \A i \in 1..Len(FinalTable.rows) :
            LET r == FinalTable.rows[i]
                B == {b \in BorrowerRows : b["Loan Number"] = r["Loan Number"]}
                aadhar == data_dict.aadhar_df.rows
                pancard == data_dict.pancard_df.rows
            IN  /\ ~IsNull(r["Aadhar Number"])
                    => \E b \in B : b["Aadhar Number"] = r["Aadhar Number"]
                /\ ~IsNull(r["Pancard Number"])
                    => \E b \in B : b["Pancard Number"] = r["Pancard Number"]
                /\ ~IsNull(r["DOB_x"]) => \E b \in B : b["DOB"] = r["DOB_x"]
                /\ (~IsNull(r["age_range"]) \/ ~IsNull(r["state"]))
                    => \E b \in B, n \in 1..Len(aadhar) :
                        /\ aadhar[n]["Loan Number"] = r["Loan Number"]
                        /\ aadhar[n]["Aadhar Number"] = b["Aadhar Number"]
                        /\ aadhar[n]["age_range"] = r["age_range"]
                        /\ aadhar[n]["state"] = r["state"]
                /\ (~IsNull(r["full_name"]) \/ ~IsNull(r["DOB_y"]))
                    => \E b \in B, n \in 1..Len(pancard) :
                        /\ pancard[n]["Loan Number"] = r["Loan Number"]
                        /\ pancard[n]["Pancard Number"] = b["Pancard Number"]
                        /\ pancard[n]["full_name"] = r["full_name"]
                        /\ pancard[n]["DOB"] = r["DOB_y"]

\* C6 happens: a loan has a borrower row and a co-borrower row, the Aadhar
\* sheet lists both their numbers, and the final table holds the loan with
\* the borrower's number and its age range.
C6_Witness ==
    /\ Built
    /\ \E loan \in AllLoans :
        LET A == data_dict.applicant_details_df
            others == {A.rows[j] : j \in RowsOf(A, loan)} \ BorrowerRows
        IN  /\ others # {}
            /\ \A o \in others :
                o["Aadhar Number"] \in CellsOf(data_dict.aadhar_df, "Aadhar Number", loan)
            /\ \E i \in RowsOf(FinalTable, loan) :
                /\ ~IsNull(FinalTable.rows[i]["Aadhar Number"])
                /\ ~IsNull(FinalTable.rows[i]["age_range"])

\* the load was attempted and failed
LoadFailed ==
    /\ pc # "start"
    /\ api_file.uploaded /\ manual_file.uploaded
    /\ LoadRaises(api_file, manual_file)

\* C7: when loading fails (a workbook cannot be read, a required sheet is
\* missing) the loader returns no data and the run ends there: no check is
\* executed, no mismatch list is produced, no final table is built or offered
\* for download.
C7_NoPartialResults ==
    LoadFailed =>
        /\ data_dict = None
        /\ pc = "done"
        /\ mismatches = <<>>
        /\ ~Built
        /\ ~download
        /\ errors = {"Error loading data"}

\* C7 happens: a run whose API workbook lacks a sheet, and one whose manual
\* workbook cannot be read, has ended after the failed load.
C7_Witness ==
    /\ LoadFailed
    /\ pc = "done"
    /\ \/ ~(ApiSheets \subseteq DOMAIN api_file.sheets)
       \/ ~manual_file.readable

\* a column that one check reads: check, frame, column
CheckColumns ==
    {<<"aadhar", "applicant_details_df", "Aadhar Number">>,
     <<"mobile", "applicant_details_df", "Mobile Number">>,
     <<"mobile", "asset_df", "mobile_number">>,
     <<"application", "application_form_df", "Mobile No.">>,
     <<"asset", "asset_details_df", "Registration Date">>}

\* C8 (the claim): when a column one check needs is absent, the run ends
\* without an error, that check has produced nothing and every other check
\* has run.
C8_MissingColumnSkipsCheck ==
    (Loaded(data_dict) /\ pc \in {"done", "crashed"}) =>
        \A k \in CheckColumns :
            k[3] \notin data_dict[k[2]].columns =>
                /\ pc = "done"
                /\ errors = {}
                /\ ~Ran(k[1])
                /\ \A n \in 1..Len(Checks) : Checks[n] # k[1] => Ran(Checks[n])

\* the cell of the loan's first row, as the row-wise checks read it
FirstCell(df, loan, col) == str(get(FirstOf(df, loan), col))

\* C9: the Application Form check compares, for every loan of both the
\* verified Asset and the ApplicationForm table, the first row of each side:
\* a name mismatch is reported iff the token-set similarity of the normalized
\* names is < 85, a mobile mismatch iff the normalized mobile strings differ;
\* a loan of only one table has no entry.
C9_ApplicationFormRowwise ==
    Ran("application") =>
        \A loan \in AllLoans :
            LET A == data_dict.asset_df
                F == data_dict.application_form_df
                both == HasLoan(A, loan) /\ HasLoan(F, loan)
            IN  /\ (\E m \in mismatches["application"] :
                        m["Loan Number"] = loan /\ m["Issue"] = "Name Mismatch")
                    <=> (both /\ token_set_ratio(
                                    normalize(FirstCell(F, loan, "Customer Name")),
                                    normalize(FirstCell(A, loan, "full_name"))) < threshold)
                /\ (\E m \in mismatches["application"] :
                        m["Loan Number"] = loan /\ m["Issue"] = "Mobile Number Mismatch")
                    <=> (both /\ normalize(FirstCell(F, loan, "Mobile No."))
                                    # normalize(FirstCell(A, loan, "mobile_number")))
                /\ ~both => \A m \in mismatches["application"] : m["Loan Number"] # loan

\* C9 happens: the check has run on a loan with two asset rows that differ;
\* the first row matches the application form in name (not equal, similar)
\* and in mobile number (equal after normalization only), the second in
\* neither, and the loan has no entry.
C9_Witness ==
    /\ Ran("application")
    /\ \E loan \in AllLoans :
        LET A == data_dict.asset_df
            F == data_dict.application_form_df
            last == A.rows[CHOOSE i \in RowsOf(A, loan) : \A j \in RowsOf(A, loan) : j <= i]
        IN  /\ HasLoan(A, loan) /\ HasLoan(F, loan)
            /\ Cardinality(RowsOf(A, loan)) = 2
            /\ FirstCell(F, loan, "Mobile No.") # FirstCell(A, loan, "mobile_number")
            /\ FirstCell(F, loan, "Customer Name") # FirstCell(A, loan, "full_name")
            /\ normalize(FirstCell(F, loan, "Mobile No.")) # normalize(str(last["mobile_number"]))
            /\ \A m \in mismatches["application"] : m["Loan Number"] # loan

\* the loans the Asset Form check reports under the issue
AssetReported(issue) == Reported("asset", issue)

\* whether the asset row and the details row of the loan differ in a field,
\* after normalization
NormalizedDiffer(loan, acol, dcol) ==
    normalize(FirstCell(data_dict.asset_df, loan, acol))
        # normalize(FirstCell(data_dict.asset_details_df, loan, dcol))

\* C10: the Asset Form check compares, for every loan of both the verified
\* Asset and the Asset-details table, the first row of each side: the
\* registration, engine and chassis numbers are reported iff their normalized
\* strings differ, the registration date iff its raw strings differ.
C10_AssetFormFields ==
    Ran("asset") =>
        \A loan \in AllLoans :
            LET both == /\ HasLoan(data_dict.asset_df, loan)
                        /\ HasLoan(data_dict.asset_details_df, loan)
            IN  /\ loan \in AssetReported("Registration Number Mismatch")
                    <=> (both /\ NormalizedDiffer(loan, "rc_number", "Registration No"))
                /\ loan \in AssetReported("Engine Number Mismatch")
                    <=> (both /\ NormalizedDiffer(loan, "vehicle_engine_number", "Engine No"))
                /\ loan \in AssetReported("Chassis Number Mismatch")
                    <=> (both /\ NormalizedDiffer(loan, "vehicle_chasi_number", "Chassis No"))
                /\ loan \in AssetReported("Registration Date Mismatch")
                    <=> (both /\ FirstCell(data_dict.asset_df, loan, "registration_date")
                                  # FirstCell(data_dict.asset_details_df, loan,
                                              "Registration Date"))

\* C10 happens: the check has run on a loan whose registration date differs
\* in letter case only and is reported, while its registration number, which
\* differs in letter case and spacing only, is not.
C10_Witness ==
    /\ Ran("asset")
    /\ \E loan \in AllLoans :
        /\ HasLoan(data_dict.asset_df, loan) /\ HasLoan(data_dict.asset_details_df, loan)
        /\ ~NormalizedDiffer(loan, "registration_date", "Registration Date")
        /\ loan \in AssetReported("Registration Date Mismatch")
        /\ FirstCell(data_dict.asset_df, loan, "rc_number")
              # FirstCell(data_dict.asset_details_df, loan, "Registration No")
        /\ loan \notin AssetReported("Registration Number Mismatch")

\* the similarity of the loan's first asset address and first applicant address
AddressScore(loan) ==
    token_set_ratio(
        normalize(FirstCell(data_dict.asset_df, loan, "permanent_address")),
        normalize(FirstCell(data_dict.applicant_details_df, loan, "Customer Address")))

\* C11 (the claim): for every loan with a verified Asset row and an Applicant
\* row, an address mismatch is reported iff the token-set similarity of the
\* normalized addresses (first row per side) is < 85, whether or not the loan
\* is in the Asset-details table.
C11_AddressChecked ==
    Ran("asset") =>
        \A loan \in AllLoans :
            (HasLoan(data_dict.asset_df, loan)
                /\ HasLoan(data_dict.applicant_details_df, loan)) =>
                (loan \in AssetReported("Address Mismatch")
                    <=> AddressScore(loan) < threshold)

\* the date the raw cell denotes when read as a decimal numeral of at most 8
\* digits, ddmmyyyy after padding: <<year, month, day>>, or NaT when it is
\* empty, not a numeral, or not a day of the calendar
CompactDate(raw) ==
    IF isna(raw) \/ raw = <<>> \/ Len(raw) > 8 \/ \E i \in 1..Len(raw) : ~IsDigit(raw[i])
    THEN NaT
    ELSE LET n == ToInt(raw)
             d == n \div 1000000
             m == (n \div 10000) % 100
             y == n % 10000
         IN  IF y >= 1 /\ m \in 1..12 /\ d >= 1 /\ d <= DaysInMonth(y, m)
             THEN <<y, m, d>> ELSE NaT

\* the raw Applicant sheet and the Applicant table the loader prepared
RawApplicants == manual_file.sheets["Applicant"].rows
Applicants == data_dict.applicant_details_df.rows

\* C12 (the claim): loading never fails on a DOB and keeps every applicant
\* row; the DOB of each row is the date its raw cell denotes as a decimal
\* numeral padded to 8 digits (ddmmyyyy), and null when that is not a valid
\* date, not a numeral, or an empty cell.
C12_DobParsed ==
    pc # "start" =>
        /\ Loaded(data_dict)
        /\ errors = {}
        /\ Len(Applicants) = Len(RawApplicants)
        /\ \A i \in 1..Len(RawApplicants) :
               Applicants[i]["DOB"] = CompactDate(RawApplicants[i]["DOB"])

\* the real dates among the loan's DOB cells, and whether one is unparsed
RealDobs(df, loan) == CellsOf(df, "DOB", loan) \ {NaT}
HasUnknownDob(df, loan) == NaT \in CellsOf(df, "DOB", loan)

\* C13: in the DOB check the unparsed DOBs of a loan count as one value
\* 'unknown', equal to itself and different from every real date: a loan of
\* both tables is reported iff the two sides differ in their real dates or
\* in having an unknown, and the real dates of both sides plus one for
\* 'unknown' (when either side has it) are more than 2.
C13_UnknownDob ==
    Ran("dob") =>
        \A loan \in AllLoans :
            LET A == data_dict.applicant_details_df
                P == data_dict.pancard_df
                unknown == HasUnknownDob(A, loan) \/ HasUnknownDob(P, loan)
            IN  loan \in Reported("dob", "DOB Mismatch")
                    <=> /\ HasLoan(A, loan) /\ HasLoan(P, loan)
                        /\ \/ RealDobs(A, loan) # RealDobs(P, loan)
                           \/ HasUnknownDob(A, loan) # HasUnknownDob(P, loan)
                        /\ Cardinality(RealDobs(A, loan) \cup RealDobs(P, loan))
                              + (IF unknown THEN 1 ELSE 0) > 2

\* the raw DOB cells of the loan's rows in the uploaded Applicant sheet
RawDobs(loan) ==
    {RawApplicants[i]["DOB"] :
        i \in {j \in 1..Len(RawApplicants) : RawApplicants[j]["Loan Number"] = loan}}

\* C13 happens: the check has run on a loan with two different raw DOBs that
\* are both unparsed, against a PAN row without a date, and the loan is not
\* reported.
C13_Witness ==
    /\ Ran("dob")
    /\ \E loan \in AllLoans :
        LET A == data_dict.applicant_details_df
            P == data_dict.pancard_df
        IN  /\ HasLoan(P, loan)
            /\ HasUnknownDob(A, loan)
            /\ Cardinality(RawDobs(loan)) = 2
            /\ NaN \notin RawDobs(loan)
            /\ RealDobs(A, loan) = {}
            /\ RealDobs(P, loan) = {} /\ HasUnknownDob(P, loan)
            /\ loan \notin Reported("dob", "DOB Mismatch")

\* the two free texts of the uploads: the asset row's and the application
\* form's mobile number
AssetText == api_file.sheets["Asset"].rows[1]["mobile_number"]
FormText == manual_file.sheets["ApplicationForm"].rows[1]["Mobile No."]

\* a text in the form normalize promises: no lower-case letter, no
\* whitespace but single spaces between tokens
Canonical(s) ==
    /\ \A i \in 1..Len(s) : s[i] \notin 97..122 /\ (IsSpace(s[i]) => s[i] = 32)
    /\ s # <<>> => (s[1] # 32 /\ s[Len(s)] # 32)
    /\ \A i \in 1..(Len(s) - 1) : ~(s[i] = 32 /\ s[i + 1] = 32)

\* x and y differ in letter case only
CaseOnly(x, y) ==
    /\ Len(x) = Len(y)
    /\ \A i \in 1..Len(x) :
           \/ x[i] = y[i]
           \/ x[i] \in 65..90 /\ y[i] = x[i] + 32
           \/ y[i] \in 65..90 /\ x[i] = y[i] + 32

\* y is x with one more whitespace character at an end or next to whitespace
OneSpaceMore(x, y) ==
    /\ Len(y) = Len(x) + 1
    /\ \E i \in 1..Len(y) :
           /\ IsSpace(y[i])
           /\ SubSeq(y, 1, i - 1) \o SubSeq(y, i + 1, Len(y)) = x
           /\ \/ i = 1
              \/ i = Len(y)
              \/ IsSpace(y[i - 1])
              \/ IsSpace(y[i + 1])

SameUpToCaseOrSpace(x, y) ==
    CaseOnly(x, y) \/ OneSpaceMore(x, y) \/ OneSpaceMore(y, x)

\* C14: normalize is idempotent; its result is upper-case, without leading
\* or trailing space and without a run of whitespace; texts that differ in
\* letter case only, or in the amount of whitespace between or around the
\* tokens, have the same normal form (so the application form check reports
\* no mobile mismatch for them); a null gives the empty string.
C14_NormalizeIdempotent ==
    /\ \A v \in {AssetText, FormText} :
           /\ normalize(normalize(v)) = normalize(v)
           /\ Canonical(normalize(v))
    /\ SameUpToCaseOrSpace(AssetText, FormText) =>
           /\ normalize(AssetText) = normalize(FormText)
           /\ Ran("application") =>
                  L1 \notin Reported("application", "Mobile Number Mismatch")
    /\ normalize(NaN) = <<>>

\* C14 happens: the application form check has run on two different texts
\* that differ in case or whitespace only, neither in normal form; no mobile
\* mismatch is reported.
C14_Witness ==
    /\ Ran("application")
    /\ AssetText # FormText
    /\ SameUpToCaseOrSpace(AssetText, FormText)
    /\ normalize(AssetText) # AssetText
    /\ normalize(FormText) # FormText
    /\ L1 \notin Reported("application", "Mobile Number Mismatch")

\* the name parts that are not empty, joined by single spaces
RECURSIVE JoinParts(_)
JoinParts(parts) ==
    IF parts = <<>> THEN <<>>
    ELSE LET rest == JoinParts(Tail(parts))
             part == IF isna(Head(parts)) THEN <<>> ELSE Head(parts)
         IN  IF part = <<>> THEN rest
             ELSE IF rest = <<>> THEN part
             ELSE part \o <<32>> \o rest

\* the raw API Asset sheet and the Asset table the loader prepared
RawAssets == api_file.sheets["Asset"].rows
Assets == data_dict.asset_df.rows

\* C15 (the claim): the stored Full Name of every applicant row (first,
\* middle, last name) and of every asset row (owner, father name) is its
\* non-empty parts joined by single spaces: no leading or trailing space and
\* no double space where a part is empty.
C15_FullNameCollapsed ==
    (pc # "start" /\ Loaded(data_dict)) =>
        /\ \A i \in 1..Len(RawApplicants) :
               Applicants[i]["Full Name"]
                   = JoinParts(<<RawApplicants[i]["First Name"],
                                 RawApplicants[i]["Middle Name"],
                                 RawApplicants[i]["Last Name"]>>)
        /\ \A i \in 1..Len(RawAssets) :
               Assets[i]["full_name"]
                   = JoinParts(<<RawAssets[i]["owner_name"], RawAssets[i]["father_name"]>>)

\* the tables the loader returned for the uploads
LoadedTables == load_and_process_data(api_file, manual_file)

\* the tables before the n-th check of a run in the script's order
RECURSIVE ScriptTables(_)
ScriptTables(n) ==
    IF n = 1 THEN LoadedTables
    ELSE tables_after(Checks[n - 1], ScriptTables(n - 1))

\* the mismatch list of check c in a run in the script's order
ScriptResult(c) ==
    LET n == CHOOSE i \in 1..Len(Checks) : Checks[i] = c
    IN  CheckResult(c, ScriptTables(n))

====
